---- MODULE Spec2Model ----
(***************************************************************************)
(* State-machine model of GeminiResponseHandler                            *)
(* (src/src/agents/gemini/GeminiResponseHandler.ts).                       *)
(*                                                                         *)
(* One relay instance.  JavaScript runs each callback to its next await    *)
(* without interruption, so every action below is one such run-to-await    *)
(* segment of run(), of handleError() (entered from run's catch), or of    *)
(* handleStopGenerating().  Text is modelled by TLA+ strings and string    *)
(* concatenation.  The variable log records, in call order, every call     *)
(* that run() and handleError() issue on the collaborators; stopLog        *)
(* records those of the handleStopGenerating invocations.                  *)
(***************************************************************************)
EXTENDS Integers, Sequences, FiniteSets, TLC

VARIABLES
    message_text,      \* this.message_text
    chunk_counter,     \* this.chunk_counter
    is_done,           \* this.is_done (the spec's `terminated`)
    last_update_time,  \* this.last_update_time
    listening,         \* handleStopGenerating is registered on "ai_indicator.stop"
    onDisposeCalls,    \* number of invocations of the onDispose callback
    pc,                \* the await at which run() is suspended
    log,               \* calls run() and handleError() have issued, in order
    stopLog,           \* calls the handleStopGenerating invocations have issued
    clock,             \* last value returned by Date.now()
    yielded,           \* fragments the streams have yielded so far
    received,          \* concatenation of every fragment yielded by the streams
    functionCalls,     \* response.functionCalls() of the first response
    callIdx,           \* index of the tool call whose fetch is pending
    functionResults,   \* the local functionResults of run()
    stops,             \* per state of a handleStopGenerating call, the number of
                       \* delivered ai_indicator.stop events whose call is in it
    apiKey,            \* process.env.TAVILY_API_KEY is set
    delivered,         \* per message_id, the ai_indicator.stop events delivered
    outcomes,          \* per entry of functionResults, how its call ended
    raised,            \* "none", or whether is_done was set when run() caught an exception
    errorOutcome,      \* how the handleError call of run() ended
    isCompleted,       \* the local isCompleted of run()
    unhandled          \* the promise of an un-awaited partialUpdateMessage call
                       \* of run() has rejected

vars == <<message_text, chunk_counter, is_done, last_update_time, listening,
          onDisposeCalls, pc, log, stopLog, clock, yielded, received, functionCalls,
          callIdx, functionResults, stops, apiKey, delivered, outcomes, raised,
          errorOutcome, isCompleted, unhandled>>

(***************************************************************************)
(* Bounds of the model.                                                    *)
(***************************************************************************)
MaxFragments == 2   \* fragments the two streams yield in total at most
MaxCalls == 1       \* tool calls in the first response at most
MaxStops == 2       \* ai_indicator.stop events delivered at most
MaxToolCalls == 2   \* tool calls of the response ToolSpec starts from at most
StartTime == 5000   \* Date.now() is at least this (ms since the epoch)

(***************************************************************************)
(* Inputs.                                                                 *)
(***************************************************************************)
TargetId == "m1"                       \* this.message.id
OtherId == "m2"                        \* the id of some other message
Instructions == "Be concise"
UserMessage == "What's the weather?"
Words == <<"Sun", "ny", " to", "day", " in", " Rome">>
Fragments(n) == {"", Words[n]}         \* values of chunk.text() of the n-th chunk
Deltas == {1000, 1001}                 \* ms between two reads of Date.now()
ErrorMessage == "boom"                 \* error.message of a caught exception
SearchBody == "{\"answer\":\"bar\"}"   \* body of a 2xx search response
FetchOutcomes == {"ok", "non2xx", "exception"}

ToolCall(name, hasArgs) == [name |-> name, hasArgs |-> hasArgs, query |-> "foo"]
ToolCalls ==
    {ToolCall("web_search", TRUE), ToolCall("web_search", FALSE),
     ToolCall("other_tool", TRUE)}
CallLists == UNION {[1..n -> ToolCalls] : n \in 0..MaxCalls}

(***************************************************************************)
(* Calls on the collaborators.                                             *)
(***************************************************************************)
Ev(op, kind, text, time, by) ==
    [op |-> op, kind |-> kind, text |-> text, time |-> time, by |-> by]

\* The relay as a callback sees it: the fields dispose touches and the
\* callback's own record of calls.
RelayWith(calls) ==
    [is_done |-> is_done, listening |-> listening,
     onDisposeCalls |-> onDisposeCalls, log |-> calls]

Relay == RelayWith(log)
StopRelay == RelayWith(stopLog)

SetRelay(r) ==
    /\ is_done' = r.is_done
    /\ listening' = r.listening
    /\ onDisposeCalls' = r.onDisposeCalls
    /\ log' = r.log
    /\ UNCHANGED stopLog

SetStopRelay(r) ==
    /\ is_done' = r.is_done
    /\ listening' = r.listening
    /\ onDisposeCalls' = r.onDisposeCalls
    /\ stopLog' = r.log
    /\ UNCHANGED log

sendEvent(r, kind, by) ==
    [r EXCEPT !.log = Append(@, Ev("sendEvent", kind, "", 0, by))]

partialUpdateMessage(r, kind, text, time, by) ==
    [r EXCEPT !.log = Append(@, Ev("partialUpdateMessage", kind, text, time, by))]

sendMessageStream(r, kind, text) ==
    [r EXCEPT !.log = Append(@, Ev("sendMessageStream", kind, text, 0, "run"))]

(***************************************************************************)
(* dispose (lines 140-147).                                                *)
(***************************************************************************)
\* A dispose without the is_done test of line 141.
disposeUnguarded(r) ==
    [r EXCEPT !.is_done = TRUE,
              !.listening = FALSE,
              !.onDisposeCalls = @ + 1,
              !.log = Append(@, Ev("onDispose", "", "", 0, "dispose"))]

dispose(r) ==
    IF r.is_done
    THEN r
    ELSE [r EXCEPT !.is_done = TRUE,
                   !.listening = FALSE,
                   !.onDisposeCalls = @ + 1,
                   !.log = Append(@, Ev("onDispose", "", "", 0, "dispose"))]

\* A finally block that does not dispose.
RunFinallySkipped(r) == r

\* The finally block of run() (lines 135-137).
RunFinally(r) == dispose(r)

(***************************************************************************)
(* Pieces of run() (lines 22-138).                                         *)
(***************************************************************************)
ThrottleMs == 1000

\* line 28
FullPrompt(instructions, userMessage) ==
    instructions \o "\n\nUser message: " \o userMessage

\* A loop that goes on after the relay is disposed.
LoopBreaksNever(done) == FALSE

\* lines 40-42 and 100-102
LoopBreaks(done) == done

\* The chunk put in front of the text.
AppendTextPrepended(text, chunkText) == chunkText \o text

\* line 46
AppendText(text, chunkText) == text \o chunkText

\* A throttle that lets an update through after exactly ThrottleMs.
ThrottleElapsedInclusive(now, last) == now - last >= ThrottleMs

\* line 48
ThrottleElapsed(now, last) == now - last > ThrottleMs

\* A test that takes an empty list for tool calls.
HasFunctionCallsAlways(calls) == Len(calls) >= 0

\* line 61 (an absent list is modelled by the empty list)
HasFunctionCalls(calls) == Len(calls) > 0

\* A test that takes every tool call for a web_search call.
IsWebSearchAny(call) == call.name = call.name

\* line 71
IsWebSearch(call) == call.name = "web_search"

\* A test that asks for the follow-up whatever the results.
HasResultsAlways(results) == Len(results) >= 0

\* line 93
HasResults(results) == Len(results) > 0

\* line 86
FailedToolPayload == "{\"error\":\"failed to call tool\"}"

\* lines 187-189
NoKeyPayload ==
    "{\"error\":\"Web search is not available. API key not configured.\"}"

\* A payload without the status code.
StatusPayloadNoCode(status, details) ==
    "{\"error\":\"Search failed\",\"details\":\"" \o details \o "\"}"

\* lines 213-216
StatusPayload(status, details) ==
    "{\"error\":\"Search failed with status: " \o status
        \o "\",\"details\":\"" \o details \o "\"}"

\* lines 228-231
ExceptionPayload(message) ==
    "{\"error\":\"An exception occurred during the search.\",\"message\":\""
        \o message \o "\"}"

\* A performWebSearch whose fetch exception ends as the caller's payload.
SearchResultUncaught(outcome) ==
    CASE outcome = "ok" -> SearchBody
      [] outcome = "non2xx" -> StatusPayload("500", "down")
      [] outcome = "exception" -> FailedToolPayload

\* What performWebSearch returns once its fetch has settled (lines 194-232).
SearchResult(outcome) ==
    CASE outcome = "ok" -> SearchBody
      [] outcome = "non2xx" -> StatusPayload("500", "down")
      [] outcome = "exception" -> ExceptionPayload("fetch failed")

ToolResult(name, response) == [name |-> name, response |-> response]

\* The results joined by a single newline.
RECURSIVE FunctionResultsTextNoBlank(_)
FunctionResultsTextNoBlank(results) ==
    IF Len(results) = 0 THEN ""
    ELSE LET one == "Function: " \o Head(results).name
                        \o "\nResult: " \o Head(results).response
         IN  IF Len(results) = 1 THEN one
             ELSE one \o "\n" \o FunctionResultsTextNoBlank(Tail(results))

\* lines 94-96
RECURSIVE FunctionResultsText(_)
FunctionResultsText(results) ==
    IF Len(results) = 0 THEN ""
    ELSE LET one == "Function: " \o Head(results).name
                        \o "\nResult: " \o Head(results).response
         IN  IF Len(results) = 1 THEN one
             ELSE one \o "\n\n" \o FunctionResultsText(Tail(results))

\* A final update that is left out when there is no text.
FinalUpdateUnlessEmpty(r, text) ==
    IF text = "" THEN r ELSE partialUpdateMessage(r, "final", text, 0, "run")

\* lines 121-123
FinalUpdate(r, text) == partialUpdateMessage(r, "final", text, 0, "run")

\* The ai_indicator.clear event issued ahead of the final update.
FinishRunClearFirst(r, text) ==
    FinalUpdate(sendEvent(r, "ai_indicator.clear", "run"), text)

\* lines 120-129: the final update and the ai_indicator.clear event of run().
FinishRun(r, text) == sendEvent(FinalUpdate(r, text), "ai_indicator.clear", "run")

\* The for loop of lines 70-90 from call i on, up to the first call whose
\* performWebSearch has to wait for its fetch.  A web_search call without
\* args throws at args.query (line 74) and is caught at line 79; without an
\* API key performWebSearch returns at line 187 without a request.
RECURSIVE ProcessCalls(_, _, _, _, _, _)
ProcessCalls(calls, key, i, results, ends, r) ==
    IF i > Len(calls)
    THEN [idx |-> i, results |-> results, ends |-> ends, relay |-> r,
          waiting |-> FALSE]
    ELSE LET call == calls[i] IN
         IF ~IsWebSearch(call)
         THEN ProcessCalls(calls, key, i + 1, results, ends, r)
         ELSE IF ~call.hasArgs
         THEN ProcessCalls(calls, key, i + 1,
                  Append(results, ToolResult(call.name, FailedToolPayload)),
                  Append(ends, "args"), r)
         ELSE LET r2 == [r EXCEPT !.log =
                            Append(@, Ev("performWebSearch", "", call.query, 0, "run"))]
              IN  IF ~key
                  THEN ProcessCalls(calls, key, i + 1,
                           Append(results, ToolResult(call.name, NoKeyPayload)),
                           Append(ends, "nokey"), r2)
                  ELSE [idx |-> i, results |-> results, ends |-> ends,
                        relay |-> [r2 EXCEPT !.log =
                                      Append(@, Ev("fetch", "", call.query, 0, "run"))],
                        waiting |-> TRUE]

(***************************************************************************)
(* Initial state: the relay as the constructor leaves it (lines 5-20).     *)
(***************************************************************************)
Init ==
    /\ message_text = ""
    /\ chunk_counter = 0
    /\ is_done = FALSE
    /\ last_update_time = 0
    /\ listening = TRUE
    /\ onDisposeCalls = 0
    /\ pc = "idle"
    /\ log = <<>>
    /\ stopLog = <<>>
    /\ clock = StartTime
    /\ yielded = 0
    /\ received = ""
    /\ functionCalls = <<>>
    /\ callIdx = 0
    /\ functionResults = <<>>
    /\ stops = [ignored |-> 0, awaitClear |-> 0, disposed |-> 0, rejected |-> 0]
    /\ delivered = [id \in {TargetId, OtherId} |-> 0]
    /\ outcomes = <<>>
    /\ errorOutcome = "none"
    /\ apiKey \in BOOLEAN
    /\ raised = "none"
    /\ isCompleted = FALSE
    /\ unhandled = FALSE

(***************************************************************************)
(* run(): one action per await.                                            *)
(***************************************************************************)
streamVars == <<message_text, chunk_counter, last_update_time, clock, yielded, received>>
toolVars == <<functionCalls, callIdx, functionResults, outcomes>>
stopVars == <<stops, delivered>>
envVars == <<apiKey, unhandled>>

\* The catch block (lines 132-134) up to the first await of handleError
\* (lines 164-173).
Catch(r) ==
    /\ raised' = IF r.is_done THEN "terminated" ELSE "live"
    /\ IF r.is_done
       THEN /\ SetRelay(RunFinally(r))
            /\ pc' = "done"
       ELSE /\ SetRelay(sendEvent(r, "AI_STATE_ERROR", "handleError"))
            /\ pc' = "awaitErrorEvent"

\* lines 22-35: run() is called; it issues the AI_STATE_GENERATING event.
RunStart ==
    /\ pc = "idle"
    /\ pc' = "awaitGenerating"
    /\ SetRelay(sendEvent(Relay, "AI_STATE_GENERATING", "run"))
    /\ UNCHANGED <<streamVars, toolVars, stopVars, envVars, raised, errorOutcome, isCompleted>>

\* lines 30-37: the event settles; on success the prompt is sent.
AfterGenerating ==
    /\ pc = "awaitGenerating"
    /\ \E ok \in BOOLEAN :
          IF ok
          THEN /\ SetRelay(sendMessageStream(Relay, "first",
                               FullPrompt(Instructions, UserMessage)))
               /\ pc' = "awaitStream1"
               /\ UNCHANGED raised
          ELSE Catch(Relay)
    /\ UNCHANGED <<streamVars, toolVars, stopVars, envVars, errorOutcome, isCompleted>>

\* lines 37-39 and 97-99: sendMessageStream settles; the loop asks for the
\* first chunk.
AfterSendMessageStream(here, next) ==
    /\ pc = here
    /\ \E ok \in BOOLEAN :
          IF ok
          THEN /\ pc' = next
               /\ UNCHANGED <<is_done, listening, onDisposeCalls, log, stopLog, raised>>
          ELSE Catch(Relay)
    /\ UNCHANGED <<streamVars, toolVars, stopVars, envVars, errorOutcome, isCompleted>>

\* lines 39-56 and 99-116: the stream yields a chunk.
StreamChunk(here, exit) ==
    /\ pc = here
    /\ yielded < MaxFragments
    /\ yielded' = yielded + 1
    /\ \E chunkText \in Fragments(yielded + 1), d \in Deltas :
          /\ received' = received \o chunkText
          /\ IF LoopBreaks(is_done)
             THEN \* break (lines 40-42, 100-102)
                  /\ exit
                  /\ UNCHANGED <<message_text, chunk_counter, last_update_time, clock>>
             ELSE IF chunkText = ""
             THEN /\ pc' = here
                  /\ UNCHANGED <<message_text, chunk_counter, last_update_time, clock,
                                 is_done, listening, onDisposeCalls, log, stopLog>>
             ELSE LET now == clock + d
                      text == AppendText(message_text, chunkText)
                  IN  /\ message_text' = text
                      /\ clock' = now
                      /\ chunk_counter' = chunk_counter + 1
                      /\ pc' = here
                      /\ IF ThrottleElapsed(now, last_update_time)
                         THEN /\ SetRelay(partialUpdateMessage(Relay, "throttled",
                                              text, now, "run"))
                              /\ last_update_time' = now
                         ELSE UNCHANGED <<is_done, listening, onDisposeCalls, log, stopLog,
                                          last_update_time>>
    /\ UNCHANGED <<toolVars, stopVars, envVars, raised, errorOutcome, isCompleted>>

\* The stream ends, or the iteration throws.
StreamEnd(here, exit) ==
    /\ pc = here
    /\ \E ok \in BOOLEAN :
          IF ok
          THEN /\ exit
               /\ UNCHANGED raised
          ELSE Catch(Relay)
    /\ UNCHANGED <<streamVars, toolVars, stopVars, envVars, errorOutcome, isCompleted>>

\* After the first loop run() awaits result.response (line 59).
ExitLoop1 ==
    /\ pc' = "awaitResponse"
    /\ UNCHANGED <<is_done, listening, onDisposeCalls, log, stopLog>>

\* After the follow-up loop run() goes on to lines 120-129.
ExitLoop2 ==
    /\ pc' = "awaitClear"
    /\ SetRelay(FinishRun(Relay, message_text))

\* lines 92-129 once the for loop over the tool calls has ended, or the
\* suspension of the loop at a fetch.
ContinueCalls(calls, i, results, ends, r) ==
    LET p == ProcessCalls(calls, apiKey, i, results, ends, r) IN
    /\ functionResults' = p.results
    /\ outcomes' = p.ends
    /\ callIdx' = p.idx
    /\ IF p.waiting
       THEN /\ pc' = "awaitSearch"
            /\ SetRelay(p.relay)
       ELSE IF HasResults(p.results)
       THEN /\ pc' = "awaitStream2"
            /\ SetRelay(sendMessageStream(p.relay, "followup",
                            FunctionResultsText(p.results)))
       ELSE /\ pc' = "awaitClear"
            /\ SetRelay(FinishRun(p.relay, message_text))

\* lines 59-67 and 120-129: the full response arrives.
AfterResponse ==
    /\ pc = "awaitResponse"
    /\ \/ \E calls \in CallLists :
             /\ functionCalls' = calls
             /\ IF HasFunctionCalls(calls)
                THEN /\ pc' = "awaitExternalSources"
                     /\ SetRelay(sendEvent(Relay, "AI_STATE_EXTERNAL_SOURCES", "run"))
                ELSE /\ pc' = "awaitClear"
                     /\ SetRelay(FinishRun(Relay, message_text))
             /\ UNCHANGED raised
       \/ /\ Catch(Relay)
          /\ UNCHANGED functionCalls
    /\ UNCHANGED <<streamVars, callIdx, functionResults, outcomes, stopVars, envVars,
                   errorOutcome, isCompleted>>

\* lines 62-90: the AI_STATE_EXTERNAL_SOURCES event settles; the for loop starts.
AfterExternalSources ==
    /\ pc = "awaitExternalSources"
    /\ \/ /\ ContinueCalls(functionCalls, 1, <<>>, <<>>, Relay)
          /\ UNCHANGED raised
       \/ /\ Catch(Relay)
          /\ UNCHANGED <<callIdx, functionResults, outcomes>>
    /\ UNCHANGED <<streamVars, functionCalls, stopVars, envVars, errorOutcome, isCompleted>>

\* lines 74-78: performWebSearch returns; the for loop goes on.
AfterSearch ==
    /\ pc = "awaitSearch"
    /\ \E outcome \in FetchOutcomes :
          ContinueCalls(functionCalls, callIdx + 1,
              Append(functionResults,
                     ToolResult(functionCalls[callIdx].name, SearchResult(outcome))),
              Append(outcomes, outcome), Relay)
    /\ UNCHANGED <<streamVars, functionCalls, stopVars, envVars, raised, errorOutcome,
                   isCompleted>>

\* lines 125-137: the ai_indicator.clear event settles; finally disposes.
AfterClear ==
    /\ pc = "awaitClear"
    /\ \/ /\ isCompleted' = TRUE
          /\ pc' = "done"
          /\ SetRelay(RunFinally(Relay))
          /\ UNCHANGED raised
       \/ /\ Catch(Relay)
          /\ UNCHANGED isCompleted
    /\ UNCHANGED <<streamVars, toolVars, stopVars, envVars, errorOutcome>>

(***************************************************************************)
(* handleError (lines 164-181), continued from Catch.                      *)
(***************************************************************************)
\* The fallback text whatever the error says.
ErrorTextFallback(message) == "Error generating the message"

\* line 176
ErrorText(message) == message

\* line 180
ErrorDispose(r) == dispose(r)

\* lines 168-179: the AI_STATE_ERROR event settles.  If it was rejected the
\* exception leaves handleError and the catch block, and finally disposes.
AfterErrorEvent ==
    /\ pc = "awaitErrorEvent"
    /\ \/ /\ pc' = "awaitErrorUpdate"
          /\ SetRelay(partialUpdateMessage(Relay, "error", ErrorText(ErrorMessage),
                          0, "handleError"))
          /\ UNCHANGED errorOutcome
       \/ /\ pc' = "done"
          /\ errorOutcome' = "eventRejected"
          /\ SetRelay(RunFinally(Relay))
    /\ UNCHANGED <<streamVars, toolVars, stopVars, envVars, raised, isCompleted>>

\* lines 174-181 and 135-137: the update of the message settles.
AfterErrorUpdate ==
    /\ pc = "awaitErrorUpdate"
    /\ \/ /\ pc' = "done"
          /\ errorOutcome' = "completed"
          /\ SetRelay(RunFinally(ErrorDispose(Relay)))
       \/ /\ pc' = "done"
          /\ errorOutcome' = "updateRejected"
          /\ SetRelay(RunFinally(Relay))
    /\ UNCHANGED <<streamVars, toolVars, stopVars, envVars, raised, isCompleted>>

(***************************************************************************)
(* handleStopGenerating (lines 149-162).                                   *)
(***************************************************************************)
\* A check that looks at is_done alone.
StopIgnoredAnyId(done, message_id) == done

\* line 150
StopIgnored(done, message_id) == done \/ message_id # TargetId

StopsDelivered == delivered[TargetId] + delivered[OtherId]

\* lines 149-160: an ai_indicator.stop event is delivered to the listener.
HandleStopGenerating ==
    /\ listening
    /\ StopsDelivered < MaxStops
    /\ \E message_id \in {TargetId, OtherId} :
          /\ delivered' = [delivered EXCEPT ![message_id] = @ + 1]
          /\ IF StopIgnored(is_done, message_id)
             THEN /\ stops' = [stops EXCEPT !.ignored = @ + 1]
                  /\ UNCHANGED <<is_done, listening, onDisposeCalls, log, stopLog>>
             ELSE /\ stops' = [stops EXCEPT !.awaitClear = @ + 1]
                  /\ SetStopRelay(sendEvent(StopRelay, "ai_indicator.clear",
                                   "handleStopGenerating"))
    /\ UNCHANGED <<streamVars, toolVars, pc, envVars, raised, errorOutcome, isCompleted>>

\* A handler that ends without disposing.
StopDisposeSkipped(r) == r

\* line 161
StopDispose(r) == dispose(r)

\* lines 156-161: the handler's ai_indicator.clear event settles.
AfterStopClear ==
    /\ stops.awaitClear > 0
    /\ \/ /\ stops' = [stops EXCEPT !.awaitClear = @ - 1, !.disposed = @ + 1]
          /\ SetStopRelay(StopDispose(StopRelay))
       \/ /\ stops' = [stops EXCEPT !.awaitClear = @ - 1, !.rejected = @ + 1]
          /\ UNCHANGED <<is_done, listening, onDisposeCalls, log, stopLog>>
    /\ UNCHANGED <<streamVars, toolVars, delivered, pc, envVars, raised, errorOutcome,
                   isCompleted>>

(***************************************************************************)
(* The partialUpdateMessage calls of lines 49-51, 109-111 and 121-123 are  *)
(* not awaited: when the promise of one of them rejects, the rejection is  *)
(* reported to the host process and not to run(), whose try block it has   *)
(* left.  unhandled records that this has happened at least once.          *)
(***************************************************************************)
UpdateRejected ==
    /\ ~unhandled
    /\ \E i \in DOMAIN log :
          log[i].op = "partialUpdateMessage" /\ log[i].by = "run"
    /\ unhandled' = TRUE
    /\ UNCHANGED <<streamVars, toolVars, stopVars, apiKey, pc, is_done, listening,
                   onDisposeCalls, log, stopLog, raised, errorOutcome, isCompleted>>

RunStep ==
    \/ AfterGenerating
    \/ AfterSendMessageStream("awaitStream1", "awaitChunk1")
    \/ StreamChunk("awaitChunk1", ExitLoop1)
    \/ StreamEnd("awaitChunk1", ExitLoop1)
    \/ AfterResponse
    \/ AfterExternalSources
    \/ AfterSearch
    \/ AfterSendMessageStream("awaitStream2", "awaitChunk2")
    \/ StreamChunk("awaitChunk2", ExitLoop2)
    \/ StreamEnd("awaitChunk2", ExitLoop2)
    \/ AfterClear
    \/ AfterErrorEvent
    \/ AfterErrorUpdate

StopStep == HandleStopGenerating \/ AfterStopClear

Next == RunStart \/ RunStep \/ StopStep \/ UpdateRejected

Spec == Init /\ [][Next]_vars

\* Every awaited promise settles: run() and the stop handlers go on.
FairSpec == Spec /\ WF_vars(RunStep) /\ WF_vars(AfterStopClear)

(***************************************************************************)
(* The tool round of run() (lines 61-137) on its own: the relay of a run() *)
(* whose first stream ended without a chunk and whose response carried     *)
(* between one and MaxToolCalls tool calls, suspended at the               *)
(* AI_STATE_EXTERNAL_SOURCES event of line 62.                             *)
(***************************************************************************)
ToolCallLists == UNION {[1..n -> ToolCalls] : n \in 1..MaxToolCalls}

ToolInit ==
    /\ message_text = ""
    /\ chunk_counter = 0
    /\ is_done = FALSE
    /\ last_update_time = 0
    /\ listening = TRUE
    /\ onDisposeCalls = 0
    /\ pc = "awaitExternalSources"
    /\ log = <<Ev("sendEvent", "AI_STATE_GENERATING", "", 0, "run"),
               Ev("sendMessageStream", "first",
                  FullPrompt(Instructions, UserMessage), 0, "run"),
               Ev("sendEvent", "AI_STATE_EXTERNAL_SOURCES", "", 0, "run")>>
    /\ stopLog = <<>>
    /\ clock = StartTime
    /\ yielded = 0
    /\ received = ""
    /\ functionCalls \in ToolCallLists
    /\ callIdx = 0
    /\ functionResults = <<>>
    /\ stops = [ignored |-> 0, awaitClear |-> 0, disposed |-> 0, rejected |-> 0]
    /\ delivered = [id \in {TargetId, OtherId} |-> 0]
    /\ outcomes = <<>>
    /\ errorOutcome = "none"
    /\ apiKey \in BOOLEAN
    /\ raised = "none"
    /\ isCompleted = FALSE
    /\ unhandled = FALSE

ToolNext ==
    \/ AfterExternalSources
    \/ AfterSearch
    \/ AfterSendMessageStream("awaitStream2", "awaitChunk2")
    \/ StreamChunk("awaitChunk2", ExitLoop2)
    \/ StreamEnd("awaitChunk2", ExitLoop2)
    \/ AfterClear
    \/ AfterErrorEvent
    \/ AfterErrorUpdate

ToolSpec == ToolInit /\ [][ToolNext]_vars

(***************************************************************************)
(* Reading the records of calls.                                           *)
(***************************************************************************)
Where(l, op, kind) == {i \in DOMAIN l : l[i].op = op /\ l[i].kind = kind}
Count(l, op, kind) == Cardinality(Where(l, op, kind))
Updates(l) == {i \in DOMAIN l : l[i].op = "partialUpdateMessage"}
TransportCalls(l) ==
    SelectSeq(l, LAMBDA e : e.op \in {"sendEvent", "partialUpdateMessage"})
Max(S) == CHOOSE x \in S : \A y \in S : y <= x
ErrorEvents == Where(log, "sendEvent", "AI_STATE_ERROR")
ErrorUpdates == Where(log, "partialUpdateMessage", "error")
Throttled == Where(log, "partialUpdateMessage", "throttled")
NThrottled == Cardinality(Throttled)
NFinal == Count(log, "partialUpdateMessage", "final")
NPrompts ==
    Count(log, "sendMessageStream", "first") + Count(log, "sendMessageStream", "followup")

\* Each recorded tool result against the way its call ended.
ToolResultsRecorded ==
    /\ Len(outcomes) = Len(functionResults)
    /\ \A i \in DOMAIN functionResults :
          /\ (outcomes[i] = "args") <=>
                 (functionResults[i].response = FailedToolPayload)
          /\ outcomes[i] = "exception" =>
                 functionResults[i].response = ExceptionPayload("fetch failed")

\* run() waits for the follow-up stream only after sending the recorded results.
FollowUpSent ==
    pc = "awaitStream2" =>
        /\ functionResults # <<>>
        /\ log[Len(log)] = Ev("sendMessageStream", "followup",
                              FunctionResultsText(functionResults), 0, "run")

\* The text of one tool result, and of the first n results joined from the left.
Rendered(result) == "Function: " \o result.name \o "\nResult: " \o result.response
RECURSIVE JoinedUpTo(_, _)
JoinedUpTo(results, n) ==
    IF n = 1 THEN Rendered(results[1])
    ELSE JoinedUpTo(results, n - 1) \o "\n\n" \o Rendered(results[n])
FollowUps == Where(log, "sendMessageStream", "followup")
WebSearchCalls == SelectSeq(functionCalls, LAMBDA c : c.name = "web_search")
Searches == Where(log, "performWebSearch", "")
Fetches == Where(log, "fetch", "")
Clears(l) == Where(l, "sendEvent", "ai_indicator.clear")

(***************************************************************************)
(* C1.  Once run() has been called, onDispose is eventually invoked, and   *)
(* over the whole lifetime of the relay it is invoked exactly once:        *)
(* never twice, whatever stop events arrive and whatever awaited call is   *)
(* rejected.                                                               *)
(***************************************************************************)
C1_DisposeExactlyOnce ==
    /\ [](onDisposeCalls <= 1)
    /\ (pc # "idle") ~> (onDisposeCalls = 1)

\* A run that caught an exception while a stop handler disposed the relay.
C1_Witness ==
    /\ pc = "done"
    /\ raised = "live"
    /\ stops.disposed > 0
    /\ onDisposeCalls = 1

(***************************************************************************)
(* C2.  Once is_done is set, no further sendEvent and no further           *)
(* partialUpdateMessage call is issued; stated for the case the claim      *)
(* singles out, a run() that is under way and has caught no exception:     *)
(* after the relay is disposed it emits no AI_STATE_EXTERNAL_SOURCES, no   *)
(* final update and no ai_indicator.clear.                                 *)
(***************************************************************************)
C2_NoTransportAfterDispose ==
    [][(is_done /\ pc # "idle" /\ raised = "none") =>
           /\ TransportCalls(log') = TransportCalls(log)
           /\ TransportCalls(stopLog') = TransportCalls(stopLog)]_vars

C5_FinalFlushOnce ==
    /\ NFinal <= 1
    /\ pc \in {"idle", "awaitGenerating", "awaitStream1", "awaitChunk1",
               "awaitResponse", "awaitExternalSources", "awaitSearch",
               "awaitStream2", "awaitChunk2"} => NFinal = 0
    /\ pc = "awaitClear" =>
          /\ NFinal = 1
          /\ Len(log) >= 2
          /\ log[Len(log) - 1] =
                 Ev("partialUpdateMessage", "final", message_text, 0, "run")
          /\ Max(Updates(log)) = Len(log) - 1
    /\ isCompleted => NFinal = 1

\* A completed run whose chunks were all empty: no throttled update, one flush.
C5_Witness ==
    /\ isCompleted
    /\ yielded = MaxFragments
    /\ NThrottled = 0
    /\ NFinal = 1

(***************************************************************************)
(* C6.  Any two throttled updates of one run, whichever loop issued them,  *)
(* are more than ThrottleMs apart on the clock.                            *)
(***************************************************************************)
C6_ThrottleSeparation ==
    \A i, j \in Throttled :
        i < j => log[j].time - log[i].time > ThrottleMs

\* One throttled update in each of the two loops.
C6_Witness ==
    \E i, j \in Throttled, k \in Where(log, "sendMessageStream", "followup") :
        i < k /\ k < j

(***************************************************************************)
(* C7.  The delivery of a stop event for another message changes nothing   *)
(* of the relay: is_done, message_text, the listener registration, the     *)
(* calls issued, onDispose and the position of run() stay as they are, and *)
(* no handler is left pending.                                             *)
(***************************************************************************)
C7_MismatchIgnored ==
    [][delivered'[OtherId] # delivered[OtherId] =>
           /\ UNCHANGED <<is_done, message_text, chunk_counter, last_update_time,
                          listening, onDisposeCalls, log, stopLog, pc>>
           /\ stops'.awaitClear = stops.awaitClear
           /\ stops'.disposed = stops.disposed]_vars

\* A stop event for another message has reached a relay that is streaming.
C7_Witness ==
    /\ delivered[OtherId] > 0
    /\ delivered[TargetId] = 0
    /\ pc = "awaitChunk1"
    /\ message_text # ""
    /\ listening
    /\ ~is_done

(***************************************************************************)
(* C8.  With an empty tool-call list in the first response, the run emits  *)
(* no AI_STATE_EXTERNAL_SOURCES, invokes no search and sends no follow-up  *)
(* prompt: a run that got to its final update has sent exactly one prompt. *)
(***************************************************************************)
C8_NoToolCalls ==
    functionCalls = <<>> =>
        /\ Count(log, "sendEvent", "AI_STATE_EXTERNAL_SOURCES") = 0
        /\ Where(log, "performWebSearch", "") = {}
        /\ Where(log, "fetch", "") = {}
        /\ Count(log, "sendMessageStream", "followup") = 0
        /\ pc \notin {"awaitExternalSources", "awaitSearch", "awaitStream2",
                      "awaitChunk2"}
        /\ NFinal = 1 => NPrompts = 1

\* A run completed on a response without tool calls.
C8_Witness ==
    /\ functionCalls = <<>>
    /\ isCompleted
    /\ message_text # ""

(***************************************************************************)
(* C9.  As claimed: a web_search call that threw, at its arguments or in   *)
(* the HTTP request, is recorded as {"error":"failed to call tool"}.       *)
(***************************************************************************)
C9_ThrowIsFailedTool ==
    \A i \in DOMAIN functionResults :
        outcomes[i] \in {"args", "exception"} =>
            functionResults[i].response = FailedToolPayload

(***************************************************************************)
(* C9, amended.  {"error":"failed to call tool"} is recorded exactly for a *)
(* web_search call that throws before performWebSearch is entered (a call  *)
(* without args); an exception of the HTTP request is caught inside        *)
(* performWebSearch and recorded as its "An exception occurred during the  *)
(* search." payload.  In both cases nothing reaches run's catch: the loop  *)
(* goes on to the next call and then to the follow-up prompt, which        *)
(* carries the recorded results.                                           *)
(***************************************************************************)
C9_ToolFailureRecovered ==
    [][/\ ToolResultsRecorded'
       /\ FollowUpSent'
       /\ pc = "awaitSearch" =>
             /\ raised' = "none"
             /\ pc' \in {"awaitSearch", "awaitStream2"}
             /\ log' # log => Len(functionResults') > Len(functionResults)]_vars

\* A run completed after the request of its web_search call threw.
C9_Witness ==
    /\ isCompleted
    /\ \E i \in DOMAIN outcomes : outcomes[i] = "exception"
    /\ ErrorEvents = {}
    /\ Count(log, "sendMessageStream", "followup") = 1
    /\ message_text # ""

(***************************************************************************)
(* C10.  In a run without a stop event for its message and without an      *)
(* exception, the final update carries the concatenation, in order, of     *)
(* every fragment of the first stream and then of the follow-up stream;    *)
(* it is followed by the run's one ai_indicator.clear and then by          *)
(* onDispose.                                                              *)
(***************************************************************************)
C10_FinalText ==
    (pc = "done" /\ raised = "none" /\ delivered[TargetId] = 0) =>
        LET n == Len(log) IN
        /\ n >= 3
        /\ log[n - 2] = Ev("partialUpdateMessage", "final", received, 0, "run")
        /\ log[n - 1] = Ev("sendEvent", "ai_indicator.clear", "", 0, "run")
        /\ log[n] = Ev("onDispose", "", "", 0, "dispose")
        /\ Count(log, "sendEvent", "ai_indicator.clear") = 1
        /\ Count(log, "onDispose", "") = 1
        /\ stopLog = <<>>

\* "Sun" came from the first stream and "ny" from the follow-up stream.
C10_Witness ==
    /\ pc = "done"
    /\ raised = "none"
    /\ delivered[TargetId] = 0
    /\ received = "Sunny"
    /\ \E k \in Where(log, "sendMessageStream", "followup") :
          /\ log[k - 1].op = "fetch"
          /\ \E i \in Throttled : i < k /\ log[i].text = "Sun"

(***************************************************************************)
(* C11.  The follow-up prompt is sent exactly when the loop over the tool  *)
(* calls has ended with at least one result; its text is the results, one  *)
(* per web_search call and in the order of the calls, each as              *)
(* "Function: <name>", a newline, "Result: <response>", joined by a blank  *)
(* line, with nothing before or after; for one web_search call that        *)
(* returned {"answer":"bar"} it is                                         *)
(* "Function: web_search\nResult: {"answer":"bar"}".                       *)
(***************************************************************************)
C11_FollowUpText ==
    /\ Cardinality(FollowUps) <= 1
    /\ \A k \in FollowUps :
          LET n == Len(functionResults) IN
          /\ n > 0
          /\ n = Len(WebSearchCalls)
          /\ \A i \in 1..n :
                /\ functionResults[i].name = WebSearchCalls[i].name
                /\ (~WebSearchCalls[i].hasArgs) <=>
                       (functionResults[i].response = FailedToolPayload)
          /\ log[k].text = JoinedUpTo(functionResults, n)
          /\ n = 1 => log[k].text = "Function: web_search\nResult: "
                                        \o functionResults[1].response
          /\ functionResults = <<ToolResult("web_search", SearchBody)>> =>
                log[k].text = "Function: web_search\nResult: {\"answer\":\"bar\"}"
    /\ pc \in {"awaitStream2", "awaitChunk2"} => FollowUps # {}

\* Two results, a failed call and then a search that answered, in one prompt.
C11_Witness ==
    /\ pc = "awaitChunk2"
    /\ Len(functionResults) = 2
    /\ \E k \in FollowUps :
          log[k].text = "Function: web_search\nResult: {\"error\":\"failed to call tool\"}"
                          \o "\n\nFunction: web_search\nResult: {\"answer\":\"bar\"}"

C13_UpdateFailureRouted ==
    [][(unhandled' /\ ~unhandled /\ ~is_done) =>
           /\ raised' = "live"
           /\ Where(log', "sendEvent", "AI_STATE_ERROR") # {}]_vars

(***************************************************************************)
(* C14.  A run sends at most two prompts: the composed user prompt, once,  *)
(* and after it at most one follow-up prompt, sent only when there is a    *)
(* tool result.  performWebSearch is invoked at most once per web_search   *)
(* call of the first response and never after the follow-up prompt: the    *)
(* follow-up response is not looked at, its stream is followed by the      *)
(* final update.                                                           *)
(***************************************************************************)
C14_SingleToolRound ==
    /\ Count(log, "sendMessageStream", "first") <= 1
    /\ Cardinality(FollowUps) <= 1
    /\ NPrompts <= 2
    /\ Count(log, "sendEvent", "AI_STATE_EXTERNAL_SOURCES") <= 1
    /\ Cardinality(Searches) <= Len(WebSearchCalls)
    /\ \A k \in FollowUps :
          /\ functionResults # <<>>
          /\ \E i \in Where(log, "sendMessageStream", "first") : i < k
          /\ \A i \in Searches \cup Fetches
                       \cup Where(log, "sendEvent", "AI_STATE_EXTERNAL_SOURCES") : i < k
          /\ NFinal = 1 =>
                \A i \in k + 1 .. Len(log) :
                    log[i].op \in {"partialUpdateMessage", "sendEvent", "onDispose"}

\* A run completed after a search and a follow-up stream that yielded text.
C14_Witness ==
    /\ isCompleted
    /\ NPrompts = 2
    /\ Fetches # {}
    /\ \E k \in FollowUps, i \in Throttled : k < i

(***************************************************************************)
(* C15.  performWebSearch always returns a payload to its caller: every    *)
(* invocation that has ended has left one result.  Without an API key the  *)
(* result is the "Web search is not available. API key not configured."    *)
(* payload and no request is made; with a key each invocation makes one    *)
(* request and returns the body on a 2xx response, the "Search failed with *)
(* status: <code>" payload otherwise, and the "An exception occurred       *)
(* during the search." payload when the request throws.                    *)
(***************************************************************************)
C15_SearchNeverRaises ==
    LET ended == {i \in DOMAIN outcomes : outcomes[i] # "args"}
        pending == IF pc = "awaitSearch" THEN 1 ELSE 0
    IN  /\ Len(outcomes) = Len(functionResults)
        /\ Cardinality(Searches) = Cardinality(ended) + pending
        /\ pc = "awaitSearch" => raised = "none"
        /\ IF apiKey
           THEN /\ Cardinality(Fetches) = Cardinality(Searches)
                /\ \A i \in Searches :
                      /\ i + 1 \in Fetches
                      /\ log[i + 1].text = log[i].text
                /\ \A i \in ended : outcomes[i] \in {"ok", "non2xx", "exception"}
           ELSE /\ Fetches = {}
                /\ pc # "awaitSearch"
                /\ \A i \in ended : outcomes[i] = "nokey"
        /\ \A i \in ended :
              functionResults[i].response =
                  CASE outcomes[i] = "nokey" ->
                         "{\"error\":\"Web search is not available. API key not configured.\"}"
                    [] outcomes[i] = "ok" -> SearchBody
                    [] outcomes[i] = "non2xx" ->
                         "{\"error\":\"Search failed with status: 500\",\"details\":\"down\"}"
                    [] outcomes[i] = "exception" ->
                         "{\"error\":\"An exception occurred during the search.\","
                             \o "\"message\":\"fetch failed\"}"

\* Two searches, one answered with a 5xx status and one whose request threw.
C15_Witness ==
    /\ apiKey
    /\ outcomes = <<"non2xx", "exception">>
    /\ Cardinality(Fetches) = 2
    /\ pc = "awaitStream2"
    /\ raised = "none"

(***************************************************************************)
(* C16.  As claimed: over the whole lifetime of a relay, run() and the     *)
(* handleStopGenerating invocations together issue ai_indicator.clear at   *)
(* most once.                                                              *)
(***************************************************************************)
C16_ClearAtMostOnce ==
    Cardinality(Clears(log)) + Cardinality(Clears(stopLog)) <= 1

(***************************************************************************)
(* C17.  As claimed: no relay issues both AI_STATE_ERROR and an            *)
(* ai_indicator.clear, and handleError does not write its error text once  *)
(* a handleStopGenerating invocation has passed its is_done check.         *)
(***************************************************************************)
C17_OneTerminationPath ==
    /\ [](ErrorEvents = {} \/ (Clears(log) = {} /\ Clears(stopLog) = {}))
    /\ [][ErrorUpdates' # ErrorUpdates =>
              stops.awaitClear + stops.disposed + stops.rejected = 0]_vars

(***************************************************************************)
(* C18.  The calls of a run are issued in the order of its steps:          *)
(* AI_STATE_GENERATING is its first call, ahead of the first prompt and of *)
(* every update of the message; AI_STATE_EXTERNAL_SOURCES comes before     *)
(* every search and before the follow-up prompt; the final update comes    *)
(* right before the run's ai_indicator.clear; and onDispose, when the run  *)
(* invokes it, comes after that clear, as the run's last call.             *)
(***************************************************************************)
C18_WorkflowOrder ==
    LET generating == Where(log, "sendEvent", "AI_STATE_GENERATING")
        firsts == Where(log, "sendMessageStream", "first")
        sources == Where(log, "sendEvent", "AI_STATE_EXTERNAL_SOURCES")
        disposals == Where(log, "onDispose", "")
    IN  /\ log # <<>> => generating = {1}
        /\ \A i \in firsts : i = 2
        /\ \A u \in Throttled \cup Where(log, "partialUpdateMessage", "final") :
              firsts # {} /\ u > 2
        /\ \A k \in Searches \cup FollowUps : \E i \in sources : i < k
        /\ \A k \in sources : firsts # {} /\ k > 2
        /\ \A c \in Clears(log) :
              /\ c > 1
              /\ log[c - 1].op = "partialUpdateMessage"
              /\ log[c - 1].kind = "final"
              /\ \A k \in FollowUps \cup Throttled \cup Searches \cup sources : k < c
        /\ \A d \in disposals :
              /\ d = Len(log)
              /\ \A c \in Clears(log) : c < d
        /\ isCompleted =>
              /\ Clears(log) # {}
              /\ disposals # {} => Max(Clears(log)) = Len(log) - 1

\* A completed run that went through every step and disposed the relay itself.
C18_Witness ==
    /\ isCompleted
    /\ log[Len(log)].op = "onDispose"
    /\ Searches # {}
    /\ FollowUps # {}
    /\ Throttled # {}
    /\ stopLog = <<>>

(***************************************************************************)
(* C19.  In every state the ai_indicator.stop listener is registered       *)
(* exactly when is_done is false, and onDispose has been invoked exactly   *)
(* when is_done is true, once: the first dispose() does the three things   *)
(* in one step, and a later dispose(), from whichever callback, leaves     *)
(* them as they are.                                                       *)
(***************************************************************************)
C19_ListenerIffLive ==
    /\ listening <=> ~is_done
    /\ onDisposeCalls = IF is_done THEN 1 ELSE 0
    /\ Count(log, "onDispose", "") + Count(stopLog, "onDispose", "") = onDisposeCalls
    /\ (pc = "done" \/ stops.disposed > 0) => is_done

\* run() completed and reached its finally after a stop handler had disposed.
C19_Witness ==
    /\ isCompleted
    /\ pc = "done"
    /\ stops.disposed > 0
    /\ Count(stopLog, "onDispose", "") = 1
    /\ Count(log, "onDispose", "") = 0
    /\ ~listening

(***************************************************************************)
(* C20.  Only web_search calls are served: there are never more results    *)
(* than web_search calls, every result bears that name, and searches are   *)
(* made for web_search calls alone.  When the response has tool calls but  *)
(* none is a web_search call, AI_STATE_EXTERNAL_SOURCES is emitted, no     *)
(* search is made, no result is recorded and no follow-up prompt is sent:  *)
(* the final update and ai_indicator.clear follow that event directly.     *)
(***************************************************************************)
C20_OnlyWebSearchServed ==
    LET sources == Where(log, "sendEvent", "AI_STATE_EXTERNAL_SOURCES")
        withArgs == SelectSeq(WebSearchCalls, LAMBDA c : c.hasArgs)
    IN  /\ Len(functionResults) <= Len(WebSearchCalls)
        /\ \A i \in DOMAIN functionResults : functionResults[i].name = "web_search"
        /\ Cardinality(Searches) <= Len(withArgs)
        /\ (functionCalls # <<>> /\ WebSearchCalls = <<>>) =>
              /\ Cardinality(sources) = 1
              /\ Searches = {}
              /\ Fetches = {}
              /\ functionResults = <<>>
              /\ FollowUps = {}
              /\ NPrompts = 1
              /\ pc \notin {"awaitSearch", "awaitStream2", "awaitChunk2"}
              /\ \A f \in Where(log, "partialUpdateMessage", "final") :
                    /\ f - 1 \in sources
                    /\ f + 1 \in Clears(log)
              /\ isCompleted => NFinal = 1

\* A run completed on a response whose only tool call is not a web_search call.
C20_Witness ==
    /\ isCompleted
    /\ functionCalls = <<ToolCall("other_tool", TRUE)>>
    /\ Count(log, "sendEvent", "AI_STATE_EXTERNAL_SOURCES") = 1
    /\ NFinal = 1
    /\ message_text # ""

====
